---- MODULE Spec2Model ----
(***************************************************************************)
(* The generic event dispatch core of the piston `input` crate: the focus, *)
(* controller-axis and update lenses (focus.rs, controller.rs, update.rs)  *)
(* and the type-erased facade GenericEvent (generic_event.rs), each as     *)
(* implemented for the two composite types Input and Event<Input>.         *)
(*                                                                         *)
(* Every operation is a pure function, so each is an operator, and the     *)
(* state machine is one call: Init draws a method and its arguments, the   *)
(* method's action applies it and records what it returned (or that it     *)
(* panicked) and which arguments it handed to the caller's closure.        *)
(*                                                                         *)
(* Values.  An enum value is a record whose field e names the variant.     *)
(* Option<T> is a sequence: None is <<>>, Some(x) is <<x>>.  A closure is  *)
(* a function over the payload type it takes.  &Any is a record of the     *)
(* concrete type's name (what TypeId distinguishes) and the value.  f64    *)
(* values are a few integers standing for -1.0, 0.0, 1.0, ...; equality is *)
(* equality of the value.                                                  *)
(***************************************************************************)
EXTENDS Integers, Sequences, FiniteSets

\* ---------------------------------------------------------------- bounds
\* f64 payload fields range over -1 .. MaxF64
MaxF64 == 1
\* u32 payload fields (window size) range over 0 .. MaxU32
MaxU32 == 1
\* controller ids (i32) and axes (u8) range over 0 .. MaxAxis
MaxAxis == 1

\* ---------------------------------------------------------------- Option
None == <<>>
Some(x) == <<x>>
is_some(o) == Len(o) = 1
unwrap(o) == o[1]

\* ------------------------------------------------------- payload types
F64 == -1 .. MaxF64
U32 == 0 .. MaxU32

ControllerAxisArgs == [id : 0 .. MaxAxis, axis : 0 .. MaxAxis, position : F64]
UpdateArgs == [dt : F64]
RenderArgs == [ext_dt : {0, 1}]
AfterRenderArgs == {[after_render |-> 0]}
IdleArgs == [idle_dt : {0, 1}]
TouchArgs == [touch_id : {0, 1}]
Button == {[button |-> "Keyboard"], [button |-> "Mouse"]}
String == {"", "a"}
F64Pair == [x : F64, y : F64]
U32Pair == [w : U32, h : U32]

\* ------------------------------------------------------------- EventId
AFTER_RENDER == "piston/after_render"
CONTROLLER_AXIS == "piston/controller_axis"
CURSOR == "piston/cursor"
FOCUS == "piston/focus"
CLOSE == "piston/close"
IDLE == "piston/idle"
MOUSE_SCROLL == "piston/mouse_scroll"
MOUSE_RELATIVE == "piston/mouse_relative"
MOUSE_CURSOR == "piston/mouse_cursor"
PRESS == "piston/press"
RELEASE == "piston/release"
RENDER == "piston/render"
RESIZE == "piston/resize"
TEXT == "piston/text"
TOUCH == "piston/touch"
UPDATE == "piston/update"
\* an identifier of some other crate
FOREIGN_ID == "other/event"

InputIds ==
    {CONTROLLER_AXIS, CURSOR, FOCUS, CLOSE, MOUSE_CURSOR, MOUSE_RELATIVE,
     MOUSE_SCROLL, PRESS, RELEASE, RESIZE, TEXT, TOUCH}
LoopIds == {UPDATE, RENDER, AFTER_RENDER, IDLE}
EventId == InputIds \cup LoopIds \cup {FOREIGN_ID}

\* ---------------------------------------------------------------- &Any
Any(t, v) == [type_id |-> t, value |-> v]
downcast_ref(any, t) == IF any.type_id = t THEN Some(any.value) ELSE None

AnyOfType(t) ==
    CASE t = "bool" -> {Any(t, v) : v \in BOOLEAN}
      [] t = "Option<()>" -> {Any(t, None)}
      [] t = "ControllerAxisArgs" -> {Any(t, v) : v \in ControllerAxisArgs}
      [] t = "(f64, f64)" -> {Any(t, v) : v \in F64Pair}
      [] t = "TouchArgs" -> {Any(t, v) : v \in TouchArgs}
      [] t = "Button" -> {Any(t, v) : v \in Button}
      [] t = "(u32, u32)" -> {Any(t, v) : v \in U32Pair}
      [] t = "String" -> {Any(t, v) : v \in String}
      [] t = "UpdateArgs" -> {Any(t, v) : v \in UpdateArgs}
      [] t = "RenderArgs" -> {Any(t, v) : v \in RenderArgs}
      [] t = "AfterRenderArgs" -> {Any(t, v) : v \in AfterRenderArgs}
      [] t = "IdleArgs" -> {Any(t, v) : v \in IdleArgs}

TypeIds ==
    {"bool", "Option<()>", "ControllerAxisArgs", "(f64, f64)", "TouchArgs",
     "Button", "(u32, u32)", "String", "UpdateArgs", "RenderArgs",
     "AfterRenderArgs", "IdleArgs"}
AnyValues == UNION {AnyOfType(t) : t \in TypeIds}

\* --------------------------------------------------------- Motion, Input
Motion ==
    [e : {"MouseCursor", "MouseRelative", "MouseScroll"}, x : F64, y : F64]
    \cup [e : {"ControllerAxis"}, args : ControllerAxisArgs]
    \cup [e : {"Touch"}, args : TouchArgs]

Input ==
    [e : {"Cursor", "Focus"}, b : BOOLEAN]
    \cup {[e |-> "Close"]}
    \cup [e : {"Move"}, m : Motion]
    \cup [e : {"Press", "Release"}, button : Button]
    \cup [e : {"Resize"}, w : U32, h : U32]
    \cup [e : {"Text"}, text : String]

Cursor(b) == [e |-> "Cursor", b |-> b]
Focus(b) == [e |-> "Focus", b |-> b]
Close == [e |-> "Close"]
Move(m) == [e |-> "Move", m |-> m]
MouseCursor(x, y) == [e |-> "MouseCursor", x |-> x, y |-> y]
MouseRelative(x, y) == [e |-> "MouseRelative", x |-> x, y |-> y]
MouseScroll(x, y) == [e |-> "MouseScroll", x |-> x, y |-> y]
ControllerAxis(args) == [e |-> "ControllerAxis", args |-> args]
Touch(args) == [e |-> "Touch", args |-> args]
Press(button) == [e |-> "Press", button |-> button]
Release(button) == [e |-> "Release", button |-> button]
Resize(w, h) == [e |-> "Resize", w |-> w, h |-> h]
Text(text) == [e |-> "Text", text |-> text]

\* ------------------------------------------------------------ Event<Input>
Event ==
    [e : {"Update"}, update : UpdateArgs]
    \cup [e : {"Render"}, render : RenderArgs]
    \cup [e : {"AfterRender"}, after_render : AfterRenderArgs]
    \cup [e : {"Idle"}, idle : IdleArgs]
    \cup [e : {"Input"}, input : Input]

Update(args) == [e |-> "Update", update |-> args]
Render(args) == [e |-> "Render", render |-> args]
AfterRender(args) == [e |-> "AfterRender", after_render |-> args]
Idle(args) == [e |-> "Idle", idle |-> args]
EventInput(input) == [e |-> "Input", input |-> input]

\* ------------------------------------------------- outcome of one call
Return(v) == [kind |-> "return", val |-> v]
Panic(msg) == [kind |-> "panic", msg |-> msg]
\* what a lens hands back: its return value and the arguments its closure got
Called(r, args) == [ret |-> r, calls |-> args]

\* ================================================= generic_event.rs: Input
\* a bug: the Touch arm copied from the ControllerAxis arm
Input_event_id_touch(self) ==
    CASE self.e = "Cursor" -> CURSOR
      [] self.e = "Focus" -> FOCUS
      [] self.e = "Close" -> CLOSE
      [] self.e = "Move" /\ self.m.e = "MouseCursor" -> MOUSE_CURSOR
      [] self.e = "Move" /\ self.m.e = "MouseRelative" -> MOUSE_RELATIVE
      [] self.e = "Move" /\ self.m.e = "MouseScroll" -> MOUSE_SCROLL
      [] self.e = "Move" /\ self.m.e = "ControllerAxis" -> CONTROLLER_AXIS
      [] self.e = "Move" /\ self.m.e = "Touch" -> CONTROLLER_AXIS
      [] self.e = "Press" -> PRESS
      [] self.e = "Release" -> RELEASE
      [] self.e = "Resize" -> RESIZE
      [] self.e = "Text" -> TEXT

Input_event_id(self) ==
    CASE self.e = "Cursor" -> CURSOR
      [] self.e = "Focus" -> FOCUS
      [] self.e = "Close" -> CLOSE
      [] self.e = "Move" /\ self.m.e = "MouseCursor" -> MOUSE_CURSOR
      [] self.e = "Move" /\ self.m.e = "MouseRelative" -> MOUSE_RELATIVE
      [] self.e = "Move" /\ self.m.e = "MouseScroll" -> MOUSE_SCROLL
      [] self.e = "Move" /\ self.m.e = "ControllerAxis" -> CONTROLLER_AXIS
      [] self.e = "Move" /\ self.m.e = "Touch" -> TOUCH
      [] self.e = "Press" -> PRESS
      [] self.e = "Release" -> RELEASE
      [] self.e = "Resize" -> RESIZE
      [] self.e = "Text" -> TEXT

\* the &Any that with_args passes to its closure
Input_erased_args(self) ==
    CASE self.e = "Cursor" -> Any("bool", self.b)
      [] self.e = "Focus" -> Any("bool", self.b)
      [] self.e = "Close" -> Any("Option<()>", None)
      [] self.e = "Move" /\ self.m.e = "ControllerAxis" ->
            Any("ControllerAxisArgs", self.m.args)
      [] self.e = "Move" /\ self.m.e = "MouseCursor" ->
            Any("(f64, f64)", [x |-> self.m.x, y |-> self.m.y])
      [] self.e = "Move" /\ self.m.e = "MouseRelative" ->
            Any("(f64, f64)", [x |-> self.m.x, y |-> self.m.y])
      [] self.e = "Move" /\ self.m.e = "MouseScroll" ->
            Any("(f64, f64)", [x |-> self.m.x, y |-> self.m.y])
      [] self.e = "Move" /\ self.m.e = "Touch" -> Any("TouchArgs", self.m.args)
      [] self.e = "Press" -> Any("Button", self.button)
      [] self.e = "Release" -> Any("Button", self.button)
      [] self.e = "Resize" -> Any("(u32, u32)", [w |-> self.w, h |-> self.h])
      [] self.e = "Text" -> Any("String", self.text)

Input_with_args(self, f) ==
    Called(f[Input_erased_args(self)], <<Input_erased_args(self)>>)

Input_from_args(event_id, any, old_event) ==
    CASE event_id = CONTROLLER_AXIS ->
            IF is_some(downcast_ref(any, "ControllerAxisArgs"))
            THEN Return(Some(Move(ControllerAxis(
                     unwrap(downcast_ref(any, "ControllerAxisArgs"))))))
            ELSE Panic("Expected ControllerAxisArgs")
      [] event_id = CURSOR ->
            IF is_some(downcast_ref(any, "bool"))
            THEN Return(Some(Cursor(unwrap(downcast_ref(any, "bool")))))
            ELSE Panic("Expected bool")
      [] event_id = FOCUS ->
            IF is_some(downcast_ref(any, "bool"))
            THEN Return(Some(Focus(unwrap(downcast_ref(any, "bool")))))
            ELSE Panic("Expected bool")
      [] event_id = MOUSE_CURSOR ->
            IF is_some(downcast_ref(any, "(f64, f64)"))
            THEN Return(Some(Move(MouseCursor(
                     unwrap(downcast_ref(any, "(f64, f64)")).x,
                     unwrap(downcast_ref(any, "(f64, f64)")).y))))
            ELSE Panic("Expected (f64, f64)")
      [] event_id = MOUSE_RELATIVE ->
            IF is_some(downcast_ref(any, "(f64, f64)"))
            THEN Return(Some(Move(MouseRelative(
                     unwrap(downcast_ref(any, "(f64, f64)")).x,
                     unwrap(downcast_ref(any, "(f64, f64)")).y))))
            ELSE Panic("Expected (f64, f64)")
      [] event_id = MOUSE_SCROLL ->
            IF is_some(downcast_ref(any, "(f64, f64)"))
            THEN Return(Some(Move(MouseScroll(
                     unwrap(downcast_ref(any, "(f64, f64)")).x,
                     unwrap(downcast_ref(any, "(f64, f64)")).y))))
            ELSE Panic("Expected (f64, f64)")
      [] event_id = PRESS ->
            IF is_some(downcast_ref(any, "Button"))
            THEN Return(Some(Press(unwrap(downcast_ref(any, "Button")))))
            ELSE Panic("Expected Button")
      [] event_id = RELEASE ->
            IF is_some(downcast_ref(any, "Button"))
            THEN Return(Some(Release(unwrap(downcast_ref(any, "Button")))))
            ELSE Panic("Expected Button")
      [] event_id = RESIZE ->
            IF is_some(downcast_ref(any, "(u32, u32)"))
            THEN Return(Some(Resize(
                     unwrap(downcast_ref(any, "(u32, u32)")).w,
                     unwrap(downcast_ref(any, "(u32, u32)")).h)))
            ELSE Panic("Expected (u32, u32))")
      [] event_id = TEXT ->
            IF is_some(downcast_ref(any, "String"))
            THEN Return(Some(Text(unwrap(downcast_ref(any, "String")))))
            ELSE Panic("Expected &str")
      [] event_id = TOUCH ->
            IF is_some(downcast_ref(any, "TouchArgs"))
            THEN Return(Some(Move(Touch(
                     unwrap(downcast_ref(any, "TouchArgs"))))))
            ELSE Panic("Expected TouchArgs")
      [] OTHER -> Return(None)

\* ============================================ generic_event.rs: Event<Input>
\* a bug: one tag for every wrapped input
Event_event_id_generic(self) ==
    CASE self.e = "Update" -> UPDATE
      [] self.e = "Render" -> RENDER
      [] self.e = "AfterRender" -> AFTER_RENDER
      [] self.e = "Idle" -> IDLE
      [] self.e = "Input" -> "piston/input"

Event_event_id(self) ==
    CASE self.e = "Update" -> UPDATE
      [] self.e = "Render" -> RENDER
      [] self.e = "AfterRender" -> AFTER_RENDER
      [] self.e = "Idle" -> IDLE
      [] self.e = "Input" -> Input_event_id(self.input)

Event_with_args(self, f) ==
    CASE self.e = "Update" ->
            Called(f[Any("UpdateArgs", self.update)],
                   <<Any("UpdateArgs", self.update)>>)
      [] self.e = "Render" ->
            Called(f[Any("RenderArgs", self.render)],
                   <<Any("RenderArgs", self.render)>>)
      [] self.e = "AfterRender" ->
            Called(f[Any("AfterRenderArgs", self.after_render)],
                   <<Any("AfterRenderArgs", self.after_render)>>)
      [] self.e = "Idle" ->
            Called(f[Any("IdleArgs", self.idle)],
                   <<Any("IdleArgs", self.idle)>>)
      [] self.e = "Input" -> Input_with_args(self.input, f)

\* Event::from_args with one of three bugs: "unchecked", the UPDATE arm
\* returns None for a payload of another type; "unwrapped", the fallback arm
\* drops what Input::from_args built; "strict", the fallback arm panics when
\* the old event holds no input
Event_from_args_bug(bug, event_id, any, old_event) ==
    CASE event_id = UPDATE ->
            IF is_some(downcast_ref(any, "UpdateArgs"))
            THEN Return(Some(Update(unwrap(downcast_ref(any, "UpdateArgs")))))
            ELSE IF bug = "unchecked" THEN Return(None)
                 ELSE Panic("Expected UpdateArgs")
      [] event_id = RENDER ->
            IF is_some(downcast_ref(any, "RenderArgs"))
            THEN Return(Some(Render(unwrap(downcast_ref(any, "RenderArgs")))))
            ELSE Panic("Expected RenderArgs")
      [] event_id = AFTER_RENDER ->
            IF is_some(downcast_ref(any, "AfterRenderArgs"))
            THEN Return(Some(AfterRender(
                     unwrap(downcast_ref(any, "AfterRenderArgs")))))
            ELSE Panic("Expected AfterRenderArgs")
      [] event_id = IDLE ->
            IF is_some(downcast_ref(any, "IdleArgs"))
            THEN Return(Some(Idle(unwrap(downcast_ref(any, "IdleArgs")))))
            ELSE Panic("Expected IdleArgs")
      [] OTHER ->
            IF old_event.e = "Input"
            THEN LET input == Input_from_args(event_id, any, old_event.input)
                 IN  IF input.kind = "panic" THEN input
                     ELSE IF is_some(input.val) /\ bug # "unwrapped"
                          THEN Return(Some(EventInput(unwrap(input.val))))
                          ELSE Return(None)
            ELSE IF bug = "strict" THEN Panic("Expected Input")
                 ELSE Return(None)
Event_from_args_unchecked(event_id, any, old_event) ==
    Event_from_args_bug("unchecked", event_id, any, old_event)
Event_from_args_unwrapped(event_id, any, old_event) ==
    Event_from_args_bug("unwrapped", event_id, any, old_event)
Event_from_args_strict(event_id, any, old_event) ==
    Event_from_args_bug("strict", event_id, any, old_event)

Event_from_args(event_id, any, old_event) ==
    CASE event_id = UPDATE ->
            IF is_some(downcast_ref(any, "UpdateArgs"))
            THEN Return(Some(Update(unwrap(downcast_ref(any, "UpdateArgs")))))
            ELSE Panic("Expected UpdateArgs")
      [] event_id = RENDER ->
            IF is_some(downcast_ref(any, "RenderArgs"))
            THEN Return(Some(Render(unwrap(downcast_ref(any, "RenderArgs")))))
            ELSE Panic("Expected RenderArgs")
      [] event_id = AFTER_RENDER ->
            IF is_some(downcast_ref(any, "AfterRenderArgs"))
            THEN Return(Some(AfterRender(
                     unwrap(downcast_ref(any, "AfterRenderArgs")))))
            ELSE Panic("Expected AfterRenderArgs")
      [] event_id = IDLE ->
            IF is_some(downcast_ref(any, "IdleArgs"))
            THEN Return(Some(Idle(unwrap(downcast_ref(any, "IdleArgs")))))
            ELSE Panic("Expected IdleArgs")
      [] OTHER ->
            IF old_event.e = "Input"
            THEN LET input == Input_from_args(event_id, any, old_event.input)
                 IN  IF input.kind = "panic" THEN input
                     ELSE IF is_some(input.val)
                          THEN Return(Some(EventInput(unwrap(input.val))))
                          ELSE Return(None)
            ELSE Return(None)

\* ================================================================ focus.rs
\* a bug: the variant of the cursor lens
Input_from_focused_cursor(focused, old_event) == Some(Cursor(focused))

Input_from_focused(focused, old_event) == Some(Focus(focused))

\* a bug: the pattern also takes the other bool variant
Input_focus_any_bool(self, f) ==
    IF self.e \in {"Focus", "Cursor"}
    THEN Called(Some(f[self.b]), <<self.b>>)
    ELSE Called(None, <<>>)

Input_focus(self, f) ==
    IF self.e = "Focus"
    THEN Called(Some(f[self.b]), <<self.b>>)
    ELSE Called(None, <<>>)

Input_focus_args(self) == Input_focus(self, [val \in BOOLEAN |-> val]).ret

Event_from_focused(focused, old_event) ==
    IF old_event.e = "Input"
    THEN LET r == Input_from_focused(focused, old_event.input)
         IN  IF is_some(r) THEN Some(EventInput(unwrap(r))) ELSE None
    ELSE None

\* a bug: no delegation to the wrapped input
Event_focus_no_delegate(self, f) == Called(None, <<>>)

Event_focus(self, f) ==
    IF self.e = "Input" THEN Input_focus(self.input, f) ELSE Called(None, <<>>)

Event_focus_args(self) == Event_focus(self, [val \in BOOLEAN |-> val]).ret

\* =========================================================== controller.rs
\* a bug: the controller of the old event is kept
Input_from_controller_axis_args_keep_id(args, old_event) ==
    IF old_event.e = "Move" /\ old_event.m.e = "ControllerAxis"
    THEN Some(Move(ControllerAxis(
             [args EXCEPT !.id = old_event.m.args.id])))
    ELSE Some(Move(ControllerAxis(args)))

Input_from_controller_axis_args(args, old_event) ==
    Some(Move(ControllerAxis(args)))

Input_controller_axis(self, f) ==
    IF self.e = "Move" /\ self.m.e = "ControllerAxis"
    THEN Called(Some(f[self.m.args]), <<self.m.args>>)
    ELSE Called(None, <<>>)

Input_controller_axis_args(self) ==
    Input_controller_axis(self, [args \in ControllerAxisArgs |-> args]).ret

Event_from_controller_axis_args(args, old_event) ==
    IF old_event.e = "Input"
    THEN LET r == Input_from_controller_axis_args(args, old_event.input)
         IN  IF is_some(r) THEN Some(EventInput(unwrap(r))) ELSE None
    ELSE None

Event_controller_axis(self, f) ==
    IF self.e = "Input"
    THEN Input_controller_axis(self.input, f)
    ELSE Called(None, <<>>)

Event_controller_axis_args(self) ==
    Event_controller_axis(self, [args \in ControllerAxisArgs |-> args]).ret

\* =============================================================== update.rs
Input_from_update_args(args, old_event) == None

Input_update(self, f) == Called(None, <<>>)

Input_update_args(self) ==
    Input_update(self, [args \in UpdateArgs |-> args]).ret

Event_from_update_args(args, old_event) == Some(Update(args))

Event_update(self, f) ==
    IF self.e = "Update"
    THEN Called(Some(f[self.update]), <<self.update>>)
    ELSE Called(None, <<>>)

Event_update_args(self) ==
    Event_update(self, [args \in UpdateArgs |-> args]).ret

\* ============================================================ one call
VARIABLES
    callee,   \* the method called, "<composite>::<method>"
    this,     \* its self or old_event argument
    idArg,    \* its event_id argument (from_args), else NoId
    anyArg,   \* its payload argument, erased, else NoAny
    pc,       \* "call" before the method has run, "done" after
    ret,      \* Return(value) or Panic(message); Pending before
    calls     \* the arguments the method passed to the caller's closure

vars == <<callee, this, idArg, anyArg, pc, ret, calls>>

NoId == "-"
NoAny == [type_id |-> "-"]
Pending == [kind |-> "pending"]

Composites == {"Input", "Event"}
ValuesOf(c) == IF c = "Input" THEN Input ELSE Event

\* the arguments a method of a composite c takes
Arguments(c, method) ==
    CASE method \in {"focus", "controller_axis", "update", "event_id",
                     "with_args"} ->
            [this : ValuesOf(c), idArg : {NoId}, anyArg : {NoAny}]
      [] method = "from_focused" ->
            [this : ValuesOf(c), idArg : {NoId}, anyArg : AnyOfType("bool")]
      [] method = "from_controller_axis_args" ->
            [this : ValuesOf(c), idArg : {NoId},
             anyArg : AnyOfType("ControllerAxisArgs")]
      [] method = "from_update_args" ->
            [this : ValuesOf(c), idArg : {NoId},
             anyArg : AnyOfType("UpdateArgs")]
      [] method = "from_args" ->
            [this : ValuesOf(c), idArg : EventId, anyArg : AnyValues]

Methods ==
    {"from_focused", "focus", "from_controller_axis_args", "controller_axis",
     "from_update_args", "update", "event_id", "with_args", "from_args"}

Name(c, method) == <<c, method>>

Init ==
    /\ \E c \in Composites, method \in Methods :
          /\ callee = Name(c, method)
          /\ \E a \in Arguments(c, method) :
                /\ this = a.this
                /\ idArg = a.idArg
                /\ anyArg = a.anyArg
    /\ pc = "call"
    /\ ret = Pending
    /\ calls = <<>>

\* the call returns v having passed the arguments cs to the closure
Finish(v, cs) ==
    /\ pc' = "done"
    /\ ret' = v
    /\ calls' = cs
    /\ UNCHANGED <<callee, this, idArg, anyArg>>

Lens(r) == Finish(Return(r.ret), r.calls)

InputFromFocused ==
    /\ pc = "call" /\ callee = Name("Input", "from_focused")
    /\ Finish(Return(Input_from_focused(anyArg.value, this)), <<>>)

InputFocus ==
    /\ pc = "call" /\ callee = Name("Input", "focus")
    /\ Lens(Input_focus(this, [val \in BOOLEAN |-> val]))

EventFromFocused ==
    /\ pc = "call" /\ callee = Name("Event", "from_focused")
    /\ Finish(Return(Event_from_focused(anyArg.value, this)), <<>>)

EventFocus ==
    /\ pc = "call" /\ callee = Name("Event", "focus")
    /\ Lens(Event_focus(this, [val \in BOOLEAN |-> val]))

InputFromControllerAxisArgs ==
    /\ pc = "call" /\ callee = Name("Input", "from_controller_axis_args")
    /\ Finish(Return(Input_from_controller_axis_args(anyArg.value, this)),
              <<>>)

InputControllerAxis ==
    /\ pc = "call" /\ callee = Name("Input", "controller_axis")
    /\ Lens(Input_controller_axis(this,
                [args \in ControllerAxisArgs |-> args]))

EventFromControllerAxisArgs ==
    /\ pc = "call" /\ callee = Name("Event", "from_controller_axis_args")
    /\ Finish(Return(Event_from_controller_axis_args(anyArg.value, this)),
              <<>>)

EventControllerAxis ==
    /\ pc = "call" /\ callee = Name("Event", "controller_axis")
    /\ Lens(Event_controller_axis(this,
                [args \in ControllerAxisArgs |-> args]))

InputFromUpdateArgs ==
    /\ pc = "call" /\ callee = Name("Input", "from_update_args")
    /\ Finish(Return(Input_from_update_args(anyArg.value, this)), <<>>)

InputUpdate ==
    /\ pc = "call" /\ callee = Name("Input", "update")
    /\ Lens(Input_update(this, [args \in UpdateArgs |-> args]))

EventFromUpdateArgs ==
    /\ pc = "call" /\ callee = Name("Event", "from_update_args")
    /\ Finish(Return(Event_from_update_args(anyArg.value, this)), <<>>)

EventUpdate ==
    /\ pc = "call" /\ callee = Name("Event", "update")
    /\ Lens(Event_update(this, [args \in UpdateArgs |-> args]))

InputEventId ==
    /\ pc = "call" /\ callee = Name("Input", "event_id")
    /\ Finish(Return(Input_event_id(this)), <<>>)

EventEventId ==
    /\ pc = "call" /\ callee = Name("Event", "event_id")
    /\ Finish(Return(Event_event_id(this)), <<>>)

InputWithArgs ==
    /\ pc = "call" /\ callee = Name("Input", "with_args")
    /\ Lens(Input_with_args(this, [a \in AnyValues |-> a]))

EventWithArgs ==
    /\ pc = "call" /\ callee = Name("Event", "with_args")
    /\ Lens(Event_with_args(this, [a \in AnyValues |-> a]))

InputFromArgs ==
    /\ pc = "call" /\ callee = Name("Input", "from_args")
    /\ Finish(Input_from_args(idArg, anyArg, this), <<>>)

EventFromArgs ==
    /\ pc = "call" /\ callee = Name("Event", "from_args")
    /\ Finish(Event_from_args(idArg, anyArg, this), <<>>)

Next ==
    \/ InputFromFocused
    \/ InputFocus
    \/ EventFromFocused
    \/ EventFocus
    \/ InputFromControllerAxisArgs
    \/ InputControllerAxis
    \/ EventFromControllerAxisArgs
    \/ EventControllerAxis
    \/ InputFromUpdateArgs
    \/ InputUpdate
    \/ EventFromUpdateArgs
    \/ EventUpdate
    \/ InputEventId
    \/ EventEventId
    \/ InputWithArgs
    \/ EventWithArgs
    \/ InputFromArgs
    \/ EventFromArgs

Spec == Init /\ [][Next]_vars

\* ======================================= trait methods, by implementing type
Self_event_id(c, self) ==
    IF c = "Input" THEN Input_event_id(self) ELSE Event_event_id(self)
Self_with_args(c, self, f) ==
    IF c = "Input" THEN Input_with_args(self, f) ELSE Event_with_args(self, f)
Self_from_args(c, event_id, any, old_event) ==
    IF c = "Input" THEN Input_from_args(event_id, any, old_event)
    ELSE Event_from_args(event_id, any, old_event)
Self_from_focused(c, focused, old_event) ==
    IF c = "Input" THEN Input_from_focused(focused, old_event)
    ELSE Event_from_focused(focused, old_event)
Self_focus(c, self, f) ==
    IF c = "Input" THEN Input_focus(self, f) ELSE Event_focus(self, f)
Self_focus_args(c, self) ==
    IF c = "Input" THEN Input_focus_args(self) ELSE Event_focus_args(self)
Self_from_controller_axis_args(c, args, old_event) ==
    IF c = "Input" THEN Input_from_controller_axis_args(args, old_event)
    ELSE Event_from_controller_axis_args(args, old_event)
Self_controller_axis(c, self, f) ==
    IF c = "Input" THEN Input_controller_axis(self, f)
    ELSE Event_controller_axis(self, f)
Self_controller_axis_args(c, self) ==
    IF c = "Input" THEN Input_controller_axis_args(self)
    ELSE Event_controller_axis_args(self)
Self_from_update_args(c, args, old_event) ==
    IF c = "Input" THEN Input_from_update_args(args, old_event)
    ELSE Event_from_update_args(args, old_event)
Self_update(c, self, f) ==
    IF c = "Input" THEN Input_update(self, f) ELSE Event_update(self, f)
Self_update_args(c, self) ==
    IF c = "Input" THEN Input_update_args(self) ELSE Event_update_args(self)

\* ================================================================ claims
Done(c, method) == pc = "done" /\ callee = Name(c, method)
Returned == ret.kind = "return"
ReturnedSome == ret.kind = "return" /\ is_some(ret.val)

\* C1: round trip, construct then extract.  For each lens K (focus,
\* controller axis, update), each composite that holds K, each old event e of
\* kind K and each payload p, construct(p, &e) is Some(x), and extracting from
\* x with K's lens and the identity closure gives Some(p).
C1_RoundTrip ==
    \A c \in Composites :
       /\ Done(c, "from_focused") /\ Self_event_id(c, this) = FOCUS
             => /\ ReturnedSome
                /\ Self_focus_args(c, unwrap(ret.val)) = Some(anyArg.value)
       /\ Done(c, "from_controller_axis_args")
             /\ Self_event_id(c, this) = CONTROLLER_AXIS
             => /\ ReturnedSome
                /\ Self_controller_axis_args(c, unwrap(ret.val))
                      = Some(anyArg.value)
       /\ Done(c, "from_update_args") /\ Self_event_id(c, this) = UPDATE
             => /\ ReturnedSome
                /\ Self_update_args(c, unwrap(ret.val)) = Some(anyArg.value)

\* a controller-axis event rebuilt on Event<Input> with the out-of-range
\* position and a payload different from the old event's
C1_Witness ==
    /\ Done("Event", "from_controller_axis_args")
    /\ Event_event_id(this) = CONTROLLER_AXIS
    /\ anyArg.value.position = MaxF64
    /\ this.input.m.args.position = -1
    /\ ReturnedSome
    /\ Event_controller_axis_args(unwrap(ret.val)) = Some(anyArg.value)

\* C2: extract then reconstruct is the identity on a constructed event.  With
\* x = construct(p, &e) for an old event e of kind K, K's lens called on x
\* with the closure |q| construct(q, &x) returns Some(y) with y = Some(x).
C2_ExtractReconstruct ==
    \A c \in Composites :
       /\ Done(c, "from_focused") /\ Self_event_id(c, this) = FOCUS
             => /\ ReturnedSome
                /\ Self_focus(c, unwrap(ret.val),
                      [q \in BOOLEAN |->
                          Self_from_focused(c, q, unwrap(ret.val))]).ret
                      = Some(ret.val)
       /\ Done(c, "from_controller_axis_args")
             /\ Self_event_id(c, this) = CONTROLLER_AXIS
             => /\ ReturnedSome
                /\ Self_controller_axis(c, unwrap(ret.val),
                      [q \in ControllerAxisArgs |->
                          Self_from_controller_axis_args(c, q,
                              unwrap(ret.val))]).ret
                      = Some(ret.val)
       /\ Done(c, "from_update_args") /\ Self_event_id(c, this) = UPDATE
             => /\ ReturnedSome
                /\ Self_update(c, unwrap(ret.val),
                      [q \in UpdateArgs |->
                          Self_from_update_args(c, q, unwrap(ret.val))]).ret
                      = Some(ret.val)

\* test_event_focus: Event::Input(Focus(false)) rebuilt with focused = true
C2_Witness ==
    /\ Done("Event", "from_focused")
    /\ this = EventInput(Focus(FALSE))
    /\ anyArg.value = TRUE
    /\ ret = Return(Some(EventInput(Focus(TRUE))))
    /\ Event_focus(unwrap(ret.val),
          [q \in BOOLEAN |-> Event_from_focused(q, unwrap(ret.val))]).ret
          = Some(ret.val)

\* the three construct operations, by name
Construct(c, method, p, old_event) ==
    CASE method = "from_focused" -> Self_from_focused(c, p, old_event)
      [] method = "from_controller_axis_args" ->
            Self_from_controller_axis_args(c, p, old_event)
      [] method = "from_update_args" -> Self_from_update_args(c, p, old_event)
Constructors == {"from_focused", "from_controller_axis_args", "from_update_args"}

\* C3 as stated: construct(p, &old1) = construct(p, &old2) for every two old
\* events of the composite, whatever their variants, and on Event every
\* construct returns Some.
C3_Original ==
    \A c \in Composites, method \in Constructors :
       Done(c, method) =>
          /\ \A old2 \in ValuesOf(c) :
                Construct(c, method, anyArg.value, old2) = ret.val
          /\ c = "Event" => is_some(ret.val)

\* C3, amended: construction ignores the old event's payload.  On Input, and
\* for from_update_args on Event, every two old events give the same result,
\* and Event::from_update_args always returns Some(Update(p)).  On Event,
\* from_focused and from_controller_axis_args return Some exactly when the old
\* event is an Event::Input, the same value for every such old event, and
\* None when the old event is Update, Render, AfterRender or Idle.
C3_OldPayloadIgnored ==
    \A method \in Constructors :
       /\ Done("Input", method) =>
             \A old2 \in Input :
                Construct("Input", method, anyArg.value, old2) = ret.val
       /\ Done("Event", method) /\ method = "from_update_args" =>
             /\ ret.val = Some(Update(anyArg.value))
             /\ \A old2 \in Event :
                   Construct("Event", method, anyArg.value, old2) = ret.val
       /\ Done("Event", method) /\ method # "from_update_args" =>
             /\ is_some(ret.val) <=> this.e = "Input"
             /\ \A old2 \in Event :
                   (old2.e = "Input") = (this.e = "Input") =>
                      Construct("Event", method, anyArg.value, old2) = ret.val

\* a controller-axis event built on Event from an old Event::Input holding a
\* different controller-axis payload
C3_Witness ==
    /\ Done("Event", "from_controller_axis_args")
    /\ this.e = "Input"
    /\ Event_event_id(this) = CONTROLLER_AXIS
    /\ this.input.m.args # anyArg.value
    /\ ret.val = Some(EventInput(Move(ControllerAxis(anyArg.value))))

\* the identifiers Input::from_args has an arm for
Input_from_args_ids ==
    {CONTROLLER_AXIS, CURSOR, FOCUS, MOUSE_CURSOR, MOUSE_RELATIVE,
     MOUSE_SCROLL, PRESS, RELEASE, RESIZE, TEXT, TOUCH}
\* the identifiers Event::from_args handles itself
Event_from_args_ids == {UPDATE, RENDER, AFTER_RENDER, IDLE}
\* the identifiers that have an expected payload type in from_args of c
TypedIds(c) ==
    IF c = "Input" THEN Input_from_args_ids
    ELSE Input_from_args_ids \cup Event_from_args_ids
\* the type from_args downcasts the payload to
Expected(event_id) ==
    CASE event_id = CONTROLLER_AXIS -> "ControllerAxisArgs"
      [] event_id \in {CURSOR, FOCUS} -> "bool"
      [] event_id \in {MOUSE_CURSOR, MOUSE_RELATIVE, MOUSE_SCROLL} ->
            "(f64, f64)"
      [] event_id \in {PRESS, RELEASE} -> "Button"
      [] event_id = RESIZE -> "(u32, u32)"
      [] event_id = TEXT -> "String"
      [] event_id = TOUCH -> "TouchArgs"
      [] event_id = UPDATE -> "UpdateArgs"
      [] event_id = RENDER -> "RenderArgs"
      [] event_id = AFTER_RENDER -> "AfterRenderArgs"
      [] event_id = IDLE -> "IdleArgs"
Mismatch(c) ==
    /\ Done(c, "from_args")
    /\ idArg \in TypedIds(c)
    /\ anyArg.type_id # Expected(idArg)

\* C4 as stated: from_args of Input and of Event panics for every identifier
\* with an expected payload type, every payload of another type and every
\* old event.
C4_Original ==
    \A c \in Composites : Mismatch(c) => ret.kind = "panic"

\* C4, amended: a payload of the wrong type makes Input::from_args panic for
\* every old event, and makes Event::from_args panic for UPDATE, RENDER,
\* AFTER_RENDER and IDLE for every old event; for an Input identifier
\* Event::from_args panics when the old event is an Event::Input and returns
\* None, unchecked, when the old event is any other variant.
C4_MismatchPanics ==
    /\ Mismatch("Input") => ret.kind = "panic"
    /\ Mismatch("Event") /\ idArg \in Event_from_args_ids => ret.kind = "panic"
    /\ Mismatch("Event") /\ idArg \notin Event_from_args_ids =>
          IF this.e = "Input" THEN ret.kind = "panic" ELSE ret = Return(None)

\* RESIZE with a String payload on an old Event::Input
C4_Witness ==
    /\ Done("Event", "from_args")
    /\ idArg = RESIZE
    /\ anyArg.type_id = "String"
    /\ this.e = "Input"
    /\ ret = Panic("Expected (u32, u32))")

\* the Event variant from_args builds itself for one of its identifiers
LoopEvent(event_id, args) ==
    CASE event_id = UPDATE -> Update(args)
      [] event_id = RENDER -> Render(args)
      [] event_id = AFTER_RENDER -> AfterRender(args)
      [] event_id = IDLE -> Idle(args)
Direct ==
    Done("Event", "from_args") /\ idArg \in Event_from_args_ids
       /\ anyArg.type_id = Expected(idArg)
          => ret = Return(Some(LoopEvent(idArg, anyArg.value)))

\* C5 as stated: for an identifier outside UPDATE, RENDER, AFTER_RENDER, IDLE
\* and every old Event, Event::from_args returns Some(Event::Input(x)) exactly
\* when Input::from_args returns Some(x), and None exactly when it returns
\* None; for the four identifiers it builds the variant itself.
C5_Original ==
    /\ Done("Event", "from_args") /\ idArg \notin Event_from_args_ids =>
          \A old_input \in Input :
             LET r == Input_from_args(idArg, anyArg, old_input)
             IN  /\ (r.kind = "return" /\ is_some(r.val))
                       <=> (ReturnedSome /\ ret.val = Some(EventInput(unwrap(r.val))))
                 /\ r = Return(None) <=> ret = Return(None)
    /\ Direct

\* C5, amended: for an identifier outside UPDATE, RENDER, AFTER_RENDER, IDLE,
\* Event::from_args delegates to Input::from_args only when the old event is
\* an Event::Input(old_input): it then returns Some(Event::Input(x)) exactly
\* when Input::from_args returns Some(x), None exactly when it returns None,
\* and panics exactly when it panics.  When the old event is any other
\* variant it returns None.  For the four identifiers with a payload of the
\* matching type it returns the corresponding variant itself.
C5_Delegation ==
    /\ Done("Event", "from_args") /\ idArg \notin Event_from_args_ids =>
          IF this.e = "Input"
          THEN LET r == Input_from_args(idArg, anyArg, this.input)
               IN  /\ (r.kind = "return" /\ is_some(r.val))
                         <=> (ReturnedSome
                              /\ ret.val = Some(EventInput(unwrap(r.val))))
                   /\ r = Return(None) <=> ret = Return(None)
                   /\ r.kind = "panic" <=> ret.kind = "panic"
          ELSE ret = Return(None)
    /\ Direct

\* TEXT delegated through an old Event::Input that holds another kind
C5_Witness ==
    /\ Done("Event", "from_args")
    /\ idArg = TEXT
    /\ anyArg = Any("String", "a")
    /\ this = EventInput(Close)
    /\ ret = Return(Some(EventInput(Text("a"))))

\* C6, the doc comment of GenericEvent::from_args: with a payload of the
\* expected type and an old event of another kind than the one requested,
\* from_args returns None.
C6_DocComment ==
    \A c \in Composites :
       Done(c, "from_args") /\ idArg \in TypedIds(c)
          /\ anyArg.type_id = Expected(idArg)
          /\ Self_event_id(c, this) # idArg
             => ret = Return(None)

\* the concrete type of the &Any that with_args passes for a value
TypeOf == [a \in AnyValues |-> a.type_id]
PayloadType(c, self) == Self_with_args(c, self, TypeOf).ret
\* the variant shape of a value, seen through Event::Input
Kind(c, self) ==
    IF c = "Event"
    THEN IF self.e = "Input"
         THEN IF self.input.e = "Move" THEN <<"Move", self.input.m.e>>
              ELSE <<self.input.e>>
         ELSE <<self.e>>
    ELSE IF self.e = "Move" THEN <<"Move", self.m.e>> ELSE <<self.e>>

\* C7 as stated: two values get the same payload type from with_args if and
\* only if they have the same event_id.
C7_Original ==
    \A c \in Composites :
       Done(c, "with_args") =>
          \A c2 \in Composites : \A e2 \in ValuesOf(c2) :
             (PayloadType(c2, e2) = calls[1].type_id)
                <=> (Self_event_id(c2, e2) = Self_event_id(c, this))

\* C7, amended: the identifier determines the payload type, not the reverse.
\* Two values with the same event_id get the same payload type from
\* with_args (bool is shared by CURSOR and FOCUS, (f64, f64) by MOUSE_CURSOR,
\* MOUSE_RELATIVE and MOUSE_SCROLL, Button by PRESS and RELEASE), and the
\* sixteen identifiers are pairwise distinct: two values have the same
\* event_id exactly when they are of the same kind.
C7_IdDeterminesType ==
    \A c \in Composites :
       /\ Done(c, "with_args") =>
             /\ Len(calls) = 1 /\ ret = Return(calls[1])
             /\ \A c2 \in Composites : \A e2 \in ValuesOf(c2) :
                   Self_event_id(c2, e2) = Self_event_id(c, this)
                      => PayloadType(c2, e2) = calls[1].type_id
       /\ Done(c, "event_id") =>
             \A c2 \in Composites : \A e2 \in ValuesOf(c2) :
                (Self_event_id(c2, e2) = ret.val) <=> (Kind(c2, e2) = Kind(c, this))

\* with_args on a touch event wrapped in Event::Input
C7_Witness ==
    /\ Done("Event", "with_args")
    /\ this.e = "Input" /\ Event_event_id(this) = TOUCH
    /\ calls = <<Any("TouchArgs", this.input.m.args)>>

IsFocus(c, self) ==
    IF c = "Input" THEN self.e = "Focus"
    ELSE self.e = "Input" /\ self.input.e = "Focus"
IsControllerAxis(c, self) ==
    IF c = "Input" THEN self.e = "Move" /\ self.m.e = "ControllerAxis"
    ELSE self.e = "Input" /\ self.input.e = "Move"
            /\ self.input.m.e = "ControllerAxis"
IsUpdate(c, self) == c = "Event" /\ self.e = "Update"

\* C8: disjointness of the lenses.  focus returns None, without calling its
\* closure, on every value that is not a Focus input (possibly inside
\* Event::Input); controller_axis likewise on every value that is not a
\* Move(ControllerAxis) input; update likewise on every Input and on every
\* Event that is not Event::Update.  At most one of the three lenses returns
\* Some on any value.
C8_Disjoint ==
    \A c \in Composites :
       /\ Done(c, "focus") /\ ~IsFocus(c, this)
             => ret = Return(None) /\ calls = <<>>
       /\ Done(c, "controller_axis") /\ ~IsControllerAxis(c, this)
             => ret = Return(None) /\ calls = <<>>
       /\ Done(c, "update") /\ ~IsUpdate(c, this)
             => ret = Return(None) /\ calls = <<>>
       /\ pc = "done" /\ callee[1] = c =>
             Cardinality(
                {k \in {"focus", "controller_axis", "update"} :
                    is_some(CASE k = "focus" -> Self_focus_args(c, this)
                              [] k = "controller_axis" ->
                                    Self_controller_axis_args(c, this)
                              [] k = "update" -> Self_update_args(c, this))})
                <= 1

\* the controller-axis lens applied to a mouse motion
C8_Witness ==
    /\ Done("Event", "controller_axis")
    /\ this.e = "Input" /\ this.input.e = "Move"
    /\ this.input.m.e = "MouseCursor"
    /\ ret = Return(None)
    /\ calls = <<>>

\* C9: delegation.  For every Input i, Event::Input(i).event_id() is
\* i.event_id(), an Input identifier and none of UPDATE, RENDER,
\* AFTER_RENDER, IDLE; focus and controller_axis on Event::Input(i) with the
\* identity closure return what they return on i; and event_id returns an
\* identifier for every value of Input and of Event.
C9_Delegation ==
    /\ Done("Event", "event_id") /\ this.e = "Input" =>
          /\ ret = Return(Input_event_id(this.input))
          /\ ret.val \in InputIds
          /\ ret.val \notin {UPDATE, RENDER, AFTER_RENDER, IDLE}
    /\ Done("Event", "focus") /\ this.e = "Input" =>
          /\ ret = Return(Input_focus_args(this.input))
          /\ calls = Input_focus(this.input, [val \in BOOLEAN |-> val]).calls
    /\ Done("Event", "controller_axis") /\ this.e = "Input" =>
          /\ ret = Return(Input_controller_axis_args(this.input))
          /\ calls = Input_controller_axis(this.input,
                        [args \in ControllerAxisArgs |-> args]).calls
    /\ \A c \in Composites :
          Done(c, "event_id") =>
             Returned /\ ret.val \in InputIds \cup LoopIds

\* Event::Input(Input::Focus(false)).event_id() is FOCUS
C9_Witness ==
    /\ Done("Event", "event_id")
    /\ this = EventInput(Focus(FALSE))
    /\ ret = Return(FOCUS)

\* C10: an unknown identifier is None, not a panic.  Input::from_args returns
\* None for every identifier it has no arm for, whatever the payload and the
\* old Input; Event::from_args returns None for every identifier that neither
\* it nor Input::from_args has an arm for, whatever the payload and the old
\* Event.
C10_UnknownIdIsNone ==
    /\ Done("Input", "from_args") /\ idArg \notin Input_from_args_ids
          => ret = Return(None)
    /\ Done("Event", "from_args")
          /\ idArg \notin Input_from_args_ids \cup Event_from_args_ids
          => ret = Return(None)

\* a foreign identifier reaching Input::from_args through an old Event::Input
C10_Witness ==
    /\ Done("Event", "from_args")
    /\ idArg = FOREIGN_ID
    /\ this.e = "Input"
    /\ anyArg.type_id = "String"
    /\ ret = Return(None)

\* C11: type-erased round trip.  For every value e of Input and of
\* Event<Input>, rebuilding from e's own identifier and the erased payload
\* that with_args hands out, with e as the old event, gives e back:
\* e.with_args(|a| from_args(e.event_id(), a, &e)) is Some(e), without a
\* panic.
C11_ErasedRoundTrip ==
    \A c \in Composites :
       Done(c, "with_args") =>
          /\ Len(calls) = 1
          /\ Self_from_args(c, Self_event_id(c, this), calls[1], this)
                = Return(Some(this))
          /\ Self_with_args(c, this,
                [a \in AnyValues |->
                    Self_from_args(c, Self_event_id(c, this), a, this)]).ret
                = Return(Some(this))

====
